---------------------------- MODULE Spec2Model ----------------------------
(***************************************************************************)
(* A model of the scheme-rs interpreter (src/src/main.rs): the tokenizer,  *)
(* the recursive-descent reader, the environment, the evaluator and the    *)
(* primitive registry, with the driver try_parse_exec on top.              *)
(*                                                                         *)
(* Representation.                                                         *)
(*   - A char is a one-character string; a String (program text, token,    *)
(*     symbol name) is a sequence of chars.                                *)
(*   - A u64 is the record [m, e] denoting m * 2^e, m odd (or m = e = 0    *)
(*     for zero).  Multiplication, the overflow test against 2^64 and the  *)
(*     wrap modulo 2^64 are exact in this form.                            *)
(*   - An f64 is the record [m, e, k] denoting m * 2^e * PI^k (e may be    *)
(*     negative): the values whose products the model computes exactly.    *)
(*   - A Rust panic is the outcome [kind |-> "Panic"]: it unwinds through  *)
(*     every caller and ends the process.                                  *)
(***************************************************************************)
EXTENDS Integers, Sequences, FiniteSets, TLC

VARIABLES
    tokens,     \* reader: the Vec<String> handed to read_from_tokens
    rd,         \* reader: what read_from_tokens returned for it
    args,       \* primitives: the Vec<DataType> handed to a primitive
    res,        \* primitives: what the primitive returned for it
    env,        \* the Env chain, innermost scope first (parent links)
    last,       \* the last operation applied to env, with env before it
    out,        \* driver: the last try_parse_exec, its parse and eval results
    build       \* whether the build checks integer overflow (debug) or not

vars == <<tokens, rd, args, res, env, last, out, build>>

NoResult == [kind |-> "None"]

(***************************************************************************)
(* Bounds of the model.                                                    *)
(***************************************************************************)
MaxTokens == 4      \* longest token sequence given to the reader
MaxArgs == 3        \* longest argument vector given to a primitive
MaxDepth == 2       \* deepest Env parent chain

(***************************************************************************)
(* Outcomes: Result::Ok, Result::Err, and a panic.                         *)
(***************************************************************************)
Err(e) == [kind |-> "Err", e |-> e]

Panic(msg) == [kind |-> "Panic", msg |-> msg]

(***************************************************************************)
(* Numbers.                                                                *)
(***************************************************************************)
RECURSIVE Pow2(_)
Pow2(n) == IF n = 0 THEN 1 ELSE 2 * Pow2(n - 1)

RECURSIVE Norm(_, _, _)
Norm(m, e, k) ==
    IF m = 0 THEN [m |-> 0, e |-> 0, k |-> 0]
    ELSE IF m % 2 = 0 THEN Norm(m \div 2, e + 1, k)
    ELSE [m |-> m, e |-> e, k |-> k]

\* the u64 with value n
U64(n) == LET r == Norm(n, 0, 0) IN [m |-> r.m, e |-> r.e]

\* the f64 with value n / 2^d
F64(n, d) == Norm(n, 0 - d, 0)

\* std::f64::consts::PI
PI == [m |-> 1, e |-> 0, k |-> 1]

\* u64 * u64 without a width: the mathematical product
MulExact(a, b) == LET r == Norm(a.m * b.m, a.e + b.e, 0) IN [m |-> r.m, e |-> r.e]

\* whether a value m * 2^e needs more than 64 bits
Overflows(x) ==
    /\ x.m # 0
    /\ \/ x.e >= 64
       \/ 64 - x.e <= 30 /\ x.m >= Pow2(64 - x.e)

\* x modulo 2^64
Wrap(x) ==
    IF x.m = 0 \/ x.e >= 64 THEN U64(0)
    ELSE IF 64 - x.e <= 30
         THEN LET r == Norm(x.m % Pow2(64 - x.e), x.e, 0) IN [m |-> r.m, e |-> r.e]
         ELSE x

\* `i as f64`: exact, the mantissa m fits in 53 bits
AsF64(i) == [m |-> i.m, e |-> i.e, k |-> 0]

\* f64 * f64
MulF64(a, b) == Norm(a.m * b.m, a.e + b.e, a.k + b.k)

(***************************************************************************)
(* enum AST and enum DataType.                                             *)
(***************************************************************************)
Integer(i) == [tag |-> "Integer", v |-> i]

Float(f) == [tag |-> "Float", v |-> f]

Symbol(s) == [tag |-> "Symbol", v |-> s]

Children(list) == [tag |-> "Children", v |-> list]

\* Option<T>
None == [tag |-> "None"]

(***************************************************************************)
(* Tokenizer.                                                              *)
(***************************************************************************)
WhiteSpace == {" ", "\n", "\t"}

LPAREN == <<"(">>

RPAREN == <<")">>

\* the loop of tokenize: every parenthesis is padded with a space on each side
RECURSIVE PadParens(_)
PadParens(program) ==
    IF program = <<>> THEN <<>>
    ELSE LET x == Head(program) IN
         (IF x = "(" THEN <<" ", "(", " ">>
          ELSE IF x = ")" THEN <<" ", ")", " ">>
          ELSE <<x>>) \o PadParens(Tail(program))

\* str::split_whitespace: the maximal runs of non-whitespace chars
RECURSIVE SplitWhitespace(_, _)
SplitWhitespace(s, cur) ==
    IF s = <<>> THEN (IF cur = <<>> THEN <<>> ELSE <<cur>>)
    ELSE IF Head(s) \in WhiteSpace
         THEN (IF cur = <<>> THEN <<>> ELSE <<cur>>) \o SplitWhitespace(Tail(s), <<>>)
         ELSE SplitWhitespace(Tail(s), Append(cur, Head(s)))

tokenize(program) == SplitWhitespace(PadParens(program), <<>>)

(***************************************************************************)
(* atom: a token is an Integer if it parses as u64, else a Float if it     *)
(* parses as f64, else a Symbol.                                           *)
(***************************************************************************)
Digits == {"0", "1", "2", "3", "4", "5", "6", "7", "8", "9"}

DigitVal(c) ==
    CASE c = "0" -> 0 [] c = "1" -> 1 [] c = "2" -> 2 [] c = "3" -> 3
      [] c = "4" -> 4 [] c = "5" -> 5 [] c = "6" -> 6 [] c = "7" -> 7
      [] c = "8" -> 8 [] c = "9" -> 9

AllDigits(s) == \A i \in 1..Len(s) : s[i] \in Digits

RECURSIVE Decimal(_, _)
Decimal(s, acc) == IF s = <<>> THEN acc ELSE Decimal(Tail(s), 10 * acc + DigitVal(Head(s)))

RECURSIVE Pow(_, _)
Pow(b, n) == IF n = 0 THEN 1 ELSE b * Pow(b, n - 1)

\* a literal without its sign
Unsigned(token, signs) ==
    IF Len(token) > 0 /\ token[1] \in signs THEN Tail(token) ELSE token

\* token.parse::<u64>(): an optional "+", then decimal digits, at least one
\* (literals of at most 19 digits, which all fit in 64 bits)
ParseU64Ok(token) ==
    LET ds == Unsigned(token, {"+"}) IN Len(ds) > 0 /\ Len(ds) <= 19 /\ AllDigits(ds)

ParseU64(token) == U64(Decimal(Unsigned(token, {"+"}), 0))

\* the position of the decimal point in a literal of digits around one ".",
\* 0 if ds is not of that form
PointAt(ds) ==
    LET ps == {i \in 1..Len(ds) : ds[i] = "."} IN
    IF Cardinality(ps) = 1 /\ Len(ds) > 1
       /\ \A i \in 1..Len(ds) : ds[i] \in Digits \cup {"."}
    THEN CHOOSE i \in ps : TRUE
    ELSE 0

\* token.parse::<f64>() on decimal literals: an optional sign, then digits
\* with at most one "." (the exponent, inf and nan forms are not modelled)
ParseF64Ok(token) ==
    LET ds == Unsigned(token, {"+", "-"}) IN
    (Len(ds) > 0 /\ AllDigits(ds)) \/ PointAt(ds) > 0

\* the literal's value n / 10^d, for the literals whose value is a dyadic
\* rational (5^d divides n), which f64 holds exactly
ParseF64(token) ==
    LET ds == Unsigned(token, {"+", "-"})
        p == IF PointAt(ds) > 0 THEN PointAt(ds) ELSE Len(ds) + 1
        d == IF PointAt(ds) > 0 THEN Len(ds) - p ELSE 0
        n == Decimal(SubSeq(ds, 1, p - 1) \o SubSeq(ds, p + 1, Len(ds)), 0)
        sign == IF Len(token) > 0 /\ token[1] = "-" THEN 0 - 1 ELSE 1
    IN  F64(sign * (n \div Pow(5, d)), d)

atom(token) ==
    IF ParseU64Ok(token) THEN Integer(ParseU64(token))
    ELSE IF ParseF64Ok(token) THEN Float(ParseF64(token))
    ELSE Symbol(token)

(***************************************************************************)
(* Reader.                                                                 *)
(***************************************************************************)
\* Ok(ReadFromTokenResult { remain, result })
ReadOk(remain, result) == [kind |-> "Ok", remain |-> remain, result |-> result]

\* a mutation of CloseList: the closing parenthesis is left in the remainder
CloseListKeepParen(vec, tmp_tokens) == ReadOk(tmp_tokens, Children(vec))

\* after the while loop: the ")" is removed and the list returned
CloseList(vec, tmp_tokens) == ReadOk(Tail(tmp_tokens), Children(vec))

RECURSIVE read_from_tokens(_)
RECURSIVE ReadChildren(_, _)

\* the while loop of read_from_tokens; tmp_tokens[0] on an empty vector is an
\* index-out-of-bounds panic
ReadChildren(vec, tmp_tokens) ==
    IF Len(tmp_tokens) = 0 THEN Panic("index out of bounds")
    ELSE IF tmp_tokens[1] # RPAREN
         THEN LET data == read_from_tokens(tmp_tokens) IN
              IF data.kind = "Ok"
              THEN ReadChildren(Append(vec, data.result), data.remain)
              ELSE data
         ELSE CloseList(vec, tmp_tokens)

read_from_tokens(toks) ==
    IF Len(toks) > 0
    THEN LET token == Head(toks)
             rest == Tail(toks)
         IN  IF token = LPAREN
             THEN IF ~(Len(rest) > 0) THEN Err("syntax error")
                  ELSE ReadChildren(<<>>, rest)
             ELSE IF token = RPAREN THEN Err("unexpected )")
             ELSE ReadOk(rest, atom(token))
    ELSE Err("unexpected EOF while reading")

\* parse: tokenize, then read one form
parse(program) == read_from_tokens(tokenize(program))

(***************************************************************************)
(* Environment: a chain of scopes, innermost first; each scope is the      *)
(* HashMap<String, DataType> behind Env.variables, the rest of the chain   *)
(* is Env.parent.                                                          *)
(***************************************************************************)
\* HashMap::insert
MapInsert(map, key, value) ==
    [x \in DOMAIN map \cup {key} |-> IF x = key THEN value ELSE map[x]]

\* Env::get: the innermost scope, then the parent chain
RECURSIVE Env_get(_, _)
Env_get(chain, key) ==
    IF key \in DOMAIN chain[1] THEN chain[1][key]
    ELSE IF Len(chain) > 1 THEN Env_get(Tail(chain), key)
    ELSE None

\* a mutation of Env_insert: the binding goes to the outermost scope
Env_insert_root(chain, key, value) ==
    [chain EXCEPT ![Len(chain)] = MapInsert(chain[Len(chain)], key, value)]

\* env.borrow_mut().variables.borrow_mut().insert(key, value)
Env_insert(chain, key, value) ==
    [chain EXCEPT ![1] = MapInsert(chain[1], key, value)]

(***************************************************************************)
(* Primitive registry (setup_functions).                                   *)
(***************************************************************************)
DefineName == <<"d", "e", "f", "i", "n", "e">>

BeginName == <<"b", "e", "g", "i", "n">>

HelloName == <<"h", "e", "l", "l", "o">>

StarName == <<"*">>

FunctionNames == {BeginName, HelloName, StarName}

\* Ok(Some(v)) and Ok(None)
OkVal(v) == [kind |-> "Ok", val |-> v]

\* "begin": vec.pop()
begin(vec) == OkVal(IF vec = <<>> THEN None ELSE vec[Len(vec)])

\* "hello"
hello(vec) == OkVal(None)

is_all_integers(vec) == \A i \in 1..Len(vec) : vec[i].tag = "Integer"

is_all_integer_or_floats(vec) == \A i \in 1..Len(vec) : vec[i].tag \in {"Integer", "Float"}

\* a mutation of FoldInt: the fold starts from 0
FoldIntFromZero(vec, o) == OkVal(Integer(U64(0)))

\* fold(1, |o, n| o * i) over u64: a product that does not fit in 64 bits
\* panics in an overflow-checked build and wraps otherwise
RECURSIVE FoldInt(_, _)
FoldInt(vec, o) ==
    IF vec = <<>> THEN OkVal(Integer(o))
    ELSE LET p == MulExact(o, Head(vec).v) IN
         IF Overflows(p)
         THEN IF build = "debug" THEN Panic("attempt to multiply with overflow")
              ELSE FoldInt(Tail(vec), Wrap(p))
         ELSE FoldInt(Tail(vec), p)

\* fold(1.0, |o, n| o * (i as f64) or o * f)
RECURSIVE FoldFloat(_, _)
FoldFloat(vec, o) ==
    IF vec = <<>> THEN OkVal(Float(o))
    ELSE LET n == Head(vec) IN
         FoldFloat(Tail(vec), MulF64(o, IF n.tag = "Integer" THEN AsF64(n.v) ELSE n.v))

\* "*"
mul(vec) ==
    IF ~is_all_integer_or_floats(vec) THEN Err("wrong argument datatype")
    ELSE IF is_all_integers(vec) THEN FoldInt(vec, U64(1))
    ELSE FoldFloat(vec, F64(1, 0))

\* func_hashmap.get(name) applied to vec
Apply(name, vec) ==
    CASE name = BeginName -> begin(vec)
      [] name = HelloName -> hello(vec)
      [] name = StarName -> mul(vec)

(***************************************************************************)
(* Evaluator.  eval returns its Result together with the environment it    *)
(* leaves behind.                                                          *)
(***************************************************************************)
EvalResult(r, e) == [res |-> r, env |-> e]

\* the "define" arm: the third child is stored as it stands
EvalDefine(solved_list, e) ==
    IF Len(solved_list) < 2 THEN EvalResult(Panic("index out of bounds"), e)
    ELSE IF solved_list[2].tag = "Symbol"
    THEN IF Len(solved_list) < 3 THEN EvalResult(Panic("index out of bounds"), e)
         ELSE IF solved_list[3].tag = "Children"
              THEN EvalResult(Err("should not reach here"), e)
              ELSE EvalResult(OkVal(None), Env_insert(e, solved_list[2].v, solved_list[3]))
    ELSE EvalResult(Err("definition name must be a symbol"), e)

RECURSIVE eval(_, _)
RECURSIVE EvalArgs(_, _, _)

\* the iterator chain building args: each argument is evaluated in turn, an
\* Err is dropped by filter_map(|r| r.ok()), an Ok(None) by filter(is_some)
EvalArgs(slice, e, acc) ==
    IF slice = <<>> THEN [res |-> OkVal(None), env |-> e, args |-> acc]
    ELSE LET r == eval(Head(slice), e) IN
         IF r.res.kind = "Panic" THEN [res |-> r.res, env |-> r.env, args |-> acc]
         ELSE IF r.res.kind = "Ok" /\ r.res.val # None
              THEN EvalArgs(Tail(slice), r.env, Append(acc, r.res.val))
              ELSE EvalArgs(Tail(slice), r.env, acc)

eval(ast_option, e) ==
    IF ast_option = None THEN EvalResult(OkVal(None), e)
    ELSE IF ast_option.tag = "Symbol"
    THEN LET g == Env_get(e, ast_option.v) IN
         IF g = None THEN EvalResult(Panic("symbol is not defined"), e)
         ELSE EvalResult(OkVal(g), e)
    ELSE IF ast_option.tag = "Children"
    THEN LET solved_list == ast_option.v IN
         IF ~(Len(solved_list) > 0) THEN EvalResult(Err("syntax error"), e)
         ELSE IF solved_list[1].tag = "Symbol"
         THEN LET s0 == solved_list[1].v IN
              IF s0 = DefineName THEN EvalDefine(solved_list, e)
              ELSE IF s0 \in FunctionNames
              THEN LET a == EvalArgs(Tail(solved_list), e, <<>>) IN
                   IF a.res.kind = "Panic" THEN EvalResult(a.res, a.env)
                   ELSE EvalResult(Apply(s0, a.args), a.env)
              ELSE EvalResult(Panic("Symbol is not defined"), e)
         ELSE EvalResult(Panic("should not reach here"), e)
    ELSE EvalResult(OkVal(ast_option), e)

(***************************************************************************)
(* Inputs of the bounded checks.                                           *)
(***************************************************************************)
SeqsUpTo(S, n) == UNION {[1..k -> S] : k \in 0..n}

\* the variables at rest: what each specification leaves untouched
TopLevel == (<<"p", "i">> :> Float(PI))

IdleReader == tokens = <<>> /\ rd = NoResult

IdlePrimitives == args = <<>> /\ res = NoResult

IdleEnv == env = <<TopLevel>> /\ last = NoResult

IdleDriver == out = NoResult

(***************************************************************************)
(* SpecRead: read_from_tokens applied to every token sequence of at most   *)
(* MaxTokens tokens over ReaderTokens.                                     *)
(***************************************************************************)
ReaderTokens == {LPAREN, RPAREN, <<"a">>, <<"7">>}

InitRead ==
    /\ tokens \in SeqsUpTo(ReaderTokens, MaxTokens)
    /\ rd = NoResult
    /\ IdlePrimitives /\ IdleEnv /\ IdleDriver
    /\ build = "debug"

Read ==
    /\ rd = NoResult
    /\ rd' = read_from_tokens(tokens)
    /\ UNCHANGED <<tokens, args, res, env, last, out, build>>

NextRead == Read

SpecRead == InitRead /\ [][NextRead]_vars

(***************************************************************************)
(* SpecPrim: a primitive of the registry applied to every argument vector  *)
(* of at most MaxArgs values over ArgValues, in either build.              *)
(***************************************************************************)
ArgValues ==
    { Integer(U64(0)), Integer(U64(2)), Integer(U64(3)),
      Integer([m |-> 1, e |-> 32]), Integer([m |-> 1, e |-> 63]),
      Float(F64(3, 1)), Float(PI), Symbol(<<"a">>) }

InitPrim ==
    /\ args \in SeqsUpTo(ArgValues, MaxArgs)
    /\ res = NoResult
    /\ build \in {"debug", "release"}
    /\ IdleReader /\ IdleEnv /\ IdleDriver

Call(f) ==
    /\ res = NoResult
    /\ res' = [kind |-> "Called", f |-> f, r |-> Apply(f, args)]
    /\ UNCHANGED <<tokens, rd, args, env, last, out, build>>

NextPrim == \E f \in FunctionNames : Call(f)

SpecPrim == InitPrim /\ [][NextPrim]_vars

(***************************************************************************)
(* SpecEnv: define forms and lookups on every Env chain of at most         *)
(* MaxDepth scopes (Env.parent is a field of the struct; main itself       *)
(* builds the chain of one scope).  last.defined is the history: the value *)
(* given by the most recent successful define of each name.                *)
(***************************************************************************)
EnvNames == {<<"x">>, <<"y">>}

EnvValues == {Integer(U64(1)), Symbol(<<"x">>)}

Scopes == UNION {[D -> EnvValues] : D \in SUBSET EnvNames}

Chains == UNION {[1..k -> Scopes] : k \in 1..MaxDepth}

\* third children of the define forms: literals, a symbol, a compound form
DefineExprs == {Integer(U64(1)), Integer(U64(2)), Symbol(<<"x">>), Children(<<>>)}

InitEnv ==
    /\ env \in Chains
    /\ last = [op |-> "init", defined |-> <<>>]
    /\ IdleReader /\ IdlePrimitives /\ IdleDriver
    /\ build = "debug"

Define(name, expr) ==
    LET r == eval(Children(<<Symbol(DefineName), Symbol(name), expr>>), env) IN
    /\ env' = r.env
    /\ last' = IF r.res = OkVal(None)
               THEN [op |-> "define", name |-> name, value |-> expr, before |-> env,
                     defined |-> MapInsert(last.defined, name, expr)]
               ELSE [op |-> "failed", name |-> name, value |-> expr, before |-> env,
                     defined |-> last.defined]
    /\ UNCHANGED <<tokens, rd, args, res, out, build>>

Lookup(name) ==
    /\ last' = [op |-> "get", name |-> name, value |-> Env_get(env, name),
                before |-> env, defined |-> last.defined]
    /\ UNCHANGED <<tokens, rd, args, res, env, out, build>>

NextEnv ==
    \/ \E name \in EnvNames, expr \in DefineExprs : Define(name, expr)
    \/ \E name \in EnvNames : Lookup(name)

SpecEnv == InitEnv /\ [][NextEnv]_vars

(***************************************************************************)
(* Claims about the reader (SpecRead).                                     *)
(***************************************************************************)
\* whether the ")" matching an already open "(" occurs in toks, depth being
\* the number of parentheses open so far
RECURSIVE Closes(_, _)
Closes(toks, depth) ==
    IF depth = 0 THEN TRUE
    ELSE IF toks = <<>> THEN FALSE
    ELSE IF Head(toks) = LPAREN THEN Closes(Tail(toks), depth + 1)
    ELSE IF Head(toks) = RPAREN THEN Closes(Tail(toks), depth - 1)
    ELSE Closes(Tail(toks), depth)

\* the input begins with "(" and ends before the matching ")"
Unclosed(toks) == Len(toks) > 0 /\ Head(toks) = LPAREN /\ ~Closes(Tail(toks), 1)

\* C2: for every token sequence that begins with "(" and runs out of tokens
\* before the matching ")" is found, read_from_tokens returns the syntax-error
\* result: it never aborts and never returns a node.
C2_UnclosedIsSyntaxError ==
    (rd # NoResult /\ Unclosed(tokens)) => rd = Err("syntax error")

\* a token as the reader sees it: a parenthesis, or the atom it denotes
Lex(token) ==
    IF token \in {LPAREN, RPAREN} THEN [tag |-> "Paren", v |-> token] ELSE atom(token)

\* a node written back out: its atoms in order, each list within its parentheses
RECURSIVE Unread(_)
RECURSIVE UnreadAll(_)
UnreadAll(list) == IF list = <<>> THEN <<>> ELSE Unread(Head(list)) \o UnreadAll(Tail(list))

Unread(node) ==
    IF node.tag = "Children"
    THEN <<Lex(LPAREN)>> \o UnreadAll(node.v) \o <<Lex(RPAREN)>>
    ELSE <<node>>

\* C9: whenever read_from_tokens succeeds, the remainder is a proper suffix of
\* the input, and the returned node written back out with its parentheses,
\* followed by the remainder, is exactly the input.
C9_NodeThenRemainIsInput ==
    rd.kind = "Ok" =>
        \E k \in 1..Len(tokens) :
            /\ rd.remain = SubSeq(tokens, k + 1, Len(tokens))
            /\ Unread(rd.result) = [i \in 1..k |-> Lex(tokens[i])]

\* a list with a child was read and tokens of a further form remain
C9_Witness ==
    /\ rd.kind = "Ok"
    /\ rd.result.tag = "Children"
    /\ Len(rd.result.v) > 0
    /\ rd.remain # <<>>

(***************************************************************************)
(* Claims about the primitive "*" (SpecPrim).                              *)
(***************************************************************************)
\* the left fold of the mathematical product over Integer arguments
RECURSIVE Product(_, _)
Product(vec, o) == IF vec = <<>> THEN o ELSE Product(Tail(vec), MulExact(o, Head(vec).v))

\* some partial product of the left fold needs more than 64 bits
RECURSIVE FoldOverflows(_, _)
FoldOverflows(vec, o) ==
    /\ vec # <<>>
    /\ \/ Overflows(MulExact(o, Head(vec).v))
       \/ FoldOverflows(Tail(vec), MulExact(o, Head(vec).v))

MulCalled == res.kind = "Called" /\ res.f = StarName

\* what C8 says of every argument list but the all-Integer ones
C8_Types ==
    IF ~is_all_integer_or_floats(args) THEN res.r = Err("wrong argument datatype")
    ELSE res.r.kind = "Ok" /\ res.r.val.tag = "Float"

\* C8 as stated: a non-Number argument gives the wrong-argument-type error;
\* otherwise the result is an Integer exactly when every argument is an
\* Integer, and then equals the left-fold product; else it is a Float.
C8_ProductAsStated ==
    MulCalled =>
        IF is_all_integers(args)
        THEN res.r = OkVal(Integer(Product(args, U64(1))))
        ELSE C8_Types

\* C8: as above, the Integer result being the left-fold product provided no
\* partial product of the fold exceeds 64 bits; when one does, the call aborts
\* in an overflow-checked build and returns the product modulo 2^64 otherwise.
C8_ProductUnlessOverflow ==
    MulCalled =>
        IF is_all_integers(args)
        THEN IF ~FoldOverflows(args, U64(1))
             THEN res.r = OkVal(Integer(Product(args, U64(1))))
             ELSE IF build = "debug" THEN res.r.kind = "Panic"
             ELSE res.r = OkVal(Integer(Wrap(Product(args, U64(1)))))
        ELSE C8_Types

\* "*" multiplied several Integers, none zero, into an Integer
C8_Witness ==
    /\ MulCalled
    /\ Len(args) = MaxArgs
    /\ is_all_integers(args)
    /\ res.r.kind = "Ok"
    /\ res.r.val.tag = "Integer"
    /\ res.r.val.v # U64(0)
    /\ res.r.val.v = Product(args, U64(1))

(***************************************************************************)
(* Claims about the environment (SpecEnv).                                 *)
(***************************************************************************)
\* C10: after any sequence of successful defines, lookup of a name returns
\* the value given by the most recent define of that name; a define changes
\* only the binding of its own name in the innermost scope: every other
\* binding of that scope and every ancestor scope are as before.
C10_DefineThenLookup ==
    /\ \A n \in DOMAIN last.defined : Env_get(env, n) = last.defined[n]
    /\ last.op = "get" /\ last.name \in DOMAIN last.defined
           => last.value = last.defined[last.name]
    /\ last.op = "define" =>
           /\ Len(env) = Len(last.before)
           /\ \A i \in 2..Len(env) : env[i] = last.before[i]
           /\ DOMAIN env[1] = DOMAIN last.before[1] \cup {last.name}
           /\ \A n \in DOMAIN last.before[1] \ {last.name} : env[1][n] = last.before[1][n]

\* a name bound in the parent scope was defined in the inner scope and then
\* looked up: the lookup gave the defined value, the parent keeps its own
C10_Witness ==
    /\ last.op = "get"
    /\ Len(env) > 1
    /\ last.name \in DOMAIN last.defined
    /\ last.name \in DOMAIN env[2]
    /\ env[2][last.name] # last.value
    /\ last.value = last.defined[last.name]

(***************************************************************************)
(* Spec: the driver.  main builds one top-level Env (no parent) binding pi *)
(* and hands program texts to try_parse_exec, which parses the text, evals *)
(* the form read and passes the value to its handler; an Err of parse or   *)
(* eval makes it panic, and a panic ends the process.                      *)
(***************************************************************************)
RECURSIVE Cat(_)
Cat(parts) == IF parts = <<>> THEN <<>> ELSE Head(parts) \o Cat(Tail(parts))

SP == <<" ">>

NL == <<"\n">>

PiName == <<"p", "i">>

LambdaName == <<"l", "a", "m", "b", "d", "a">>

TwiceName == <<"t", "w", "i", "c", "e">>

\* (define r 10)
StmtDefineR == Cat(<<LPAREN, DefineName, SP, <<"r">>, SP, <<"1", "0">>, RPAREN>>)

\* (define r 3)
StmtRedefineR == Cat(<<LPAREN, DefineName, SP, <<"r">>, SP, <<"3">>, RPAREN>>)

\* (define h 1.5)
StmtDefineH == Cat(<<LPAREN, DefineName, SP, <<"h">>, SP, <<"1", ".", "5">>, RPAREN>>)

\* (* pi (* r r))
StmtArea ==
    Cat(<<LPAREN, StarName, SP, PiName, SP,
          LPAREN, StarName, SP, <<"r">>, SP, <<"r">>, RPAREN, RPAREN>>)

\* (begin (define r 10) (* pi (* r r)))
StmtBeginArea == Cat(<<LPAREN, BeginName, SP, StmtDefineR, SP, StmtArea, RPAREN>>)

\* (define r 10)(* pi (* r r))
StmtTwoForms == Cat(<<StmtDefineR, StmtArea>>)

\* (define x (* 2 3))
StmtDefineProduct ==
    Cat(<<LPAREN, DefineName, SP, <<"x">>, SP,
          LPAREN, StarName, SP, <<"2">>, SP, <<"3">>, RPAREN, RPAREN>>)

\* (define y r)
StmtDefineAlias == Cat(<<LPAREN, DefineName, SP, <<"y">>, SP, <<"r">>, RPAREN>>)

\* (* 2 ())
StmtBadArg == Cat(<<LPAREN, StarName, SP, <<"2">>, SP, LPAREN, RPAREN, RPAREN>>)

\* (* h (define 3 4))
StmtBadDefineArg ==
    Cat(<<LPAREN, StarName, SP, <<"h">>, SP,
          LPAREN, DefineName, SP, <<"3">>, SP, <<"4">>, RPAREN, RPAREN>>)

\* (begin 5 (define r 10))
StmtBeginDefineLast == Cat(<<LPAREN, BeginName, SP, <<"5">>, SP, StmtDefineR, RPAREN>>)

\* (begin r 7)
StmtBeginLiteralLast == Cat(<<LPAREN, BeginName, SP, <<"r">>, SP, <<"7">>, RPAREN>>)

\* ((lambda (x) x) 5)
StmtLambdaCall ==
    Cat(<<LPAREN, LPAREN, LambdaName, SP, LPAREN, <<"x">>, RPAREN, SP, <<"x">>, RPAREN,
          SP, <<"5">>, RPAREN>>)

\* ((lambda (x) x) 5 6)
StmtLambdaArity ==
    Cat(<<LPAREN, LPAREN, LambdaName, SP, LPAREN, <<"x">>, RPAREN, SP, <<"x">>, RPAREN,
          SP, <<"5">>, SP, <<"6">>, RPAREN>>)

\* (define twice (lambda (x) (* 2 x))) newline (twice 5)
StmtDefineTwice ==
    Cat(<<LPAREN, DefineName, SP, TwiceName, SP,
          LPAREN, LambdaName, SP, LPAREN, <<"x">>, RPAREN, SP,
          LPAREN, StarName, SP, <<"2">>, SP, <<"x">>, RPAREN, RPAREN, RPAREN,
          NL, LPAREN, TwiceName, SP, <<"5">>, RPAREN>>)

\* (* 2 3
StmtUnclosed == Cat(<<LPAREN, StarName, SP, <<"2">>, SP, <<"3">>>>)

Programs ==
    { StmtDefineR, StmtRedefineR, StmtDefineH, StmtArea, StmtBeginArea, StmtTwoForms,
      StmtDefineProduct, StmtDefineAlias, StmtBadArg, StmtBadDefineArg,
      StmtBeginDefineLast, StmtBeginLiteralLast, StmtLambdaCall, StmtLambdaArity,
      StmtDefineTwice, StmtUnclosed,
      <<"r">>, <<"y">>, <<"z">>, <<"7">>, <<"(", ")">>, <<>> }

Init ==
    /\ env = <<TopLevel>>
    /\ last = NoResult
    /\ out = NoResult
    /\ build \in {"debug", "release"}
    /\ IdleReader /\ IdlePrimitives

\* try_parse_exec(stmt, &env, handler)
try_parse_exec(stmt) ==
    LET p == parse(stmt)
        r == IF p.kind = "Ok" THEN eval(p.result, env)
             ELSE EvalResult(NoResult, env)
    IN  /\ out.kind # "Panic"
        /\ env' = r.env
        /\ out' = [kind |-> IF r.res.kind = "Ok" THEN "Ok" ELSE "Panic",
                   stmt |-> stmt, parsed |-> p, evald |-> r.res, before |-> env]
        /\ UNCHANGED <<tokens, rd, args, res, last, build>>

Next == \E stmt \in Programs : try_parse_exec(stmt)

Spec == Init /\ [][Next]_vars

(***************************************************************************)
(* Claims about the driver and the evaluator (Spec).                       *)
(***************************************************************************)
\* the statement was parsed and handed to eval
Evaluated == out # NoResult /\ out.parsed.kind = "Ok"

\* the top-level forms of a token sequence, read one after the other
RECURSIVE ReadForms(_)
ReadForms(toks) ==
    IF toks = <<>> THEN [ok |-> TRUE, forms |-> <<>>]
    ELSE LET d == read_from_tokens(toks) IN
         IF d.kind # "Ok" THEN [ok |-> FALSE, forms |-> <<>>]
         ELSE LET rest == ReadForms(d.remain) IN
              [ok |-> rest.ok, forms |-> <<d.result>> \o rest.forms]

\* the forms evaluated left to right in one environment: the last value
RECURSIVE RunForms(_, _, _)
RunForms(forms, e, value) ==
    IF forms = <<>> THEN EvalResult(value, e)
    ELSE LET r == eval(Head(forms), e) IN
         IF r.res.kind # "Ok" THEN r ELSE RunForms(Tail(forms), r.env, r.res)

\* C1: for a text of n >= 1 top-level forms, every form is evaluated, left to
\* right, in the same environment, and the value returned to the caller is
\* the value of the last form.
C1_ValueOfLastForm ==
    LET fs == ReadForms(tokenize(out.stmt))
        run == RunForms(fs.forms, out.before, NoResult)
    IN  (out # NoResult /\ fs.ok /\ Len(fs.forms) >= 1 /\ run.res.kind = "Ok")
            => (out.evald = run.res /\ env = run.env)

IsDefineForm(ast) ==
    /\ ast.tag = "Children"
    /\ Len(ast.v) = 3
    /\ ast.v[1] = Symbol(DefineName)
    /\ ast.v[2].tag = "Symbol"

\* C3: (define name expr) evaluates expr in the current environment and binds
\* name to the resulting value.
C3_DefineBindsValueOfExpr ==
    (Evaluated /\ IsDefineForm(out.parsed.result)) =>
        LET ast == out.parsed.result
            value == eval(ast.v[3], out.before)
        IN  (value.res.kind = "Ok" /\ value.res.val # None)
                => Env_get(env, ast.v[2].v) = value.res.val

IsPrimitiveCall(ast) ==
    /\ ast.tag = "Children"
    /\ Len(ast.v) > 0
    /\ ast.v[1].tag = "Symbol"
    /\ ast.v[1].v \in FunctionNames

\* the results of evaluating the arguments one after the other
RECURSIVE ArgResults(_, _)
ArgResults(slice, e) ==
    IF slice = <<>> THEN <<>>
    ELSE LET r == eval(Head(slice), e) IN <<r.res>> \o ArgResults(Tail(slice), r.env)

\* C4: if evaluating an argument of a procedure call fails with an error, the
\* whole call fails with an error: no value computed from the other arguments
\* is returned.
C4_ArgumentErrorFailsCall ==
    (Evaluated /\ IsPrimitiveCall(out.parsed.result)) =>
        LET rs == ArgResults(Tail(out.parsed.result.v), out.before) IN
        ((\E i \in 1..Len(rs) : rs[i].kind = "Err") /\ (\A i \in 1..Len(rs) : rs[i].kind # "Panic"))
            => out.evald.kind = "Err"

\* C5: the value of (begin e1 ... en) is the value of en alone: when en yields
\* no value the begin form yields no value.
C5_BeginYieldsLastChild ==
    (/\ Evaluated
     /\ IsPrimitiveCall(out.parsed.result)
     /\ out.parsed.result.v[1].v = BeginName
     /\ Len(out.parsed.result.v) > 1) =>
        LET rs == ArgResults(Tail(out.parsed.result.v), out.before) IN
        (\A i \in 1..Len(rs) : rs[i].kind = "Ok") => out.evald = rs[Len(rs)]

\* C6: a Symbol evaluates to the value bound to it in the innermost scope that
\* binds it; when no scope binds it, eval returns an error result to its
\* caller and leaves the environment unchanged.
C6_UnboundSymbolIsError ==
    (Evaluated /\ out.parsed.result.tag = "Symbol") =>
        LET g == Env_get(out.before, out.parsed.result.v) IN
        /\ env = out.before
        /\ IF g = None THEN out.evald.kind = "Err" ELSE out.evald = OkVal(g)

\* ((lambda (p1 ... pn) body) a1 ... am), the arguments being literals
IsLambdaCall(ast) ==
    /\ ast.tag = "Children"
    /\ Len(ast.v) > 0
    /\ ast.v[1].tag = "Children"
    /\ Len(ast.v[1].v) = 3
    /\ ast.v[1].v[1] = Symbol(LambdaName)
    /\ ast.v[1].v[2].tag = "Children"
    /\ \A i \in 1..Len(ast.v[1].v[2].v) : ast.v[1].v[2].v[i].tag = "Symbol"
    /\ \A i \in 2..Len(ast.v) : ast.v[i].tag \in {"Integer", "Float"}

\* the value of a Symbol or literal body in a fresh scope that binds the
\* parameters to the arguments and whose parent is the captured environment
BodyValue(body, params, actuals, captured) ==
    LET bound == {i \in 1..Len(params) : params[i] = body} IN
    IF body.tag # "Symbol" THEN body
    ELSE IF bound # {} THEN actuals[CHOOSE i \in bound : \A j \in bound : j <= i]
    ELSE Env_get(captured, body.v)

\* C7: a closure call binds the parameters positionally to the arguments in
\* a fresh scope under the captured environment and returns the value of the
\* body there; a wrong number of arguments is an arity error; the bindings of
\* the captured and the calling environment are unchanged.
C7_ClosureCall ==
    (/\ Evaluated
     /\ IsLambdaCall(out.parsed.result)
     /\ out.parsed.result.v[1].v[3].tag # "Children") =>
        LET ast == out.parsed.result
            params == ast.v[1].v[2].v
            actuals == Tail(ast.v)
        IN  /\ env = out.before
            /\ IF Len(actuals) # Len(params) THEN out.evald.kind = "Err"
               ELSE out.evald = OkVal(BodyValue(ast.v[1].v[3], params, actuals, out.before))

=============================================================================
